---- MODULE Spec2Model ----
(***************************************************************************)
(* A model of the ray tracer in src/raytracer.cpp: Vec3, Ray, Sphere,      *)
(* Scene, Camera, Image and the four Renderer passes.                      *)
(*                                                                         *)
(* A double is modelled as a fixed-point number: the integer n stands for  *)
(* n / Scale, so that the self-intersection epsilon 0.001 is the integer   *)
(* 1.  Products and quotients round toward zero, the square root rounds    *)
(* down.  +infinity is the integer Inf, above every value the model        *)
(* computes.  A NaN (0/0 for a ray of zero direction) compares false with  *)
(* everything, which the model states where the comparison is made.        *)
(***************************************************************************)
EXTENDS Integers, Sequences, FiniteSets

VARIABLES
    spheres,      \* Scene::spheres, a sequence of [center, radius, material]
    lights,       \* Scene::lights, a sequence of [position, color, intensity]
    ambientLight, \* Scene::ambientLight
    camera,       \* the Camera of main: [position, lookAt, up, fov]
    img,          \* Image::pixels, indexed by y * width + x
    pc,           \* where main is: "setup", "idle" (between passes), "render"
    mode,         \* the render pass running or last run
    px, py,       \* the loop variables x and y of the running pass
    writes,       \* per pixel, the number of setPixel stores of the running pass
    outside,      \* number of setPixel calls of the running pass that were out of range
    call,         \* the last direct call of an intersection query, with its result
    t, sphereIdx  \* the caller's locals handed to the queries by reference

vars == <<spheres, lights, ambientLight, camera, img, pc, mode, px, py,
          writes, outside, call, t, sphereIdx>>

----------------------------------------------------------------------------
(* Bounds of the model *)

MaxSpheres == 2
MaxLights == 2
Width == 3
Height == 2

----------------------------------------------------------------------------
(* double *)

Scale == 1000
Inf == 2147483647
Epsilon == 1

Quot(n, d) == IF n >= 0 THEN n \div d ELSE -((-n) \div d)

Mul(a, b) == Quot(a * b, Scale)

Div(a, b) == IF b > 0 THEN Quot(a * Scale, b) ELSE -Quot(a * Scale, -b)

RECURSIVE SqrtSearch(_, _, _)
SqrtSearch(n, lo, hi) ==
    IF lo >= hi THEN lo
    ELSE LET mid == (lo + hi + 1) \div 2
         IN  IF mid * mid <= n THEN SqrtSearch(n, mid, hi)
                               ELSE SqrtSearch(n, lo, mid - 1)

ISqrt(n) == SqrtSearch(n, 0, 46340)

Sqrt(a) == ISqrt(a * Scale)

Min(a, b) == IF a < b THEN a ELSE b

Max(a, b) == IF a < b THEN b ELSE a

Tan(halfDegrees) ==
    CASE halfDegrees = 30 -> 577
      [] halfDegrees = 45 -> 1000

----------------------------------------------------------------------------
(* Vec3 *)

Vec3(x, y, z) == <<x, y, z>>

Vec3Add(u, v) == <<u[1] + v[1], u[2] + v[2], u[3] + v[3]>>

Vec3Sub(u, v) == <<u[1] - v[1], u[2] - v[2], u[3] - v[3]>>

Vec3Scale(u, s) == <<Mul(u[1], s), Mul(u[2], s), Mul(u[3], s)>>

Vec3Div(u, s) == <<Div(u[1], s), Div(u[2], s), Div(u[3], s)>>

Vec3Mul(u, v) == <<Mul(u[1], v[1]), Mul(u[2], v[2]), Mul(u[3], v[3])>>

Dot(u, v) == Quot(u[1] * v[1] + u[2] * v[2] + u[3] * v[3], Scale)

Length(u) == ISqrt(u[1] * u[1] + u[2] * u[2] + u[3] * u[3])

Normalize(u) ==
    LET len == Length(u)
    IN  IF len > 0 THEN Vec3Div(u, len) ELSE Vec3(0, 0, 0)

Cross(u, v) ==
    <<Mul(u[2], v[3]) - Mul(u[3], v[2]),
      Mul(u[3], v[1]) - Mul(u[1], v[3]),
      Mul(u[1], v[2]) - Mul(u[2], v[1])>>

----------------------------------------------------------------------------
(* Ray *)

Ray(origin, direction) ==
    [origin |-> origin, direction |-> Normalize(direction)]

At(ray, d) == Vec3Add(ray.origin, Vec3Scale(ray.direction, d))

----------------------------------------------------------------------------
(* Sphere *)

Sphere(center, radius, color) ==
    [center |-> center, radius |-> radius, material |-> [color |-> color]]

\* The coefficients, the discriminant and the roots of the quadratic of
\* Sphere::intersect, one by one.  The roots are NaN when a = 0 (0/0): IsNaN
\* says so, Root0 and Root1 are then not evaluated.
QuadA(s, ray) == Dot(ray.direction, ray.direction)

QuadB(s, ray) == 2 * Dot(Vec3Sub(ray.origin, s.center), ray.direction)

QuadC(s, ray) ==
    LET oc == Vec3Sub(ray.origin, s.center)
    IN  Dot(oc, oc) - Mul(s.radius, s.radius)

Discriminant(s, ray) ==
    Mul(QuadB(s, ray), QuadB(s, ray)) - 4 * Mul(QuadA(s, ray), QuadC(s, ray))

IsNaN(s, ray) == QuadA(s, ray) = 0

Root0(s, ray) ==
    Div(-QuadB(s, ray) - Sqrt(Discriminant(s, ray)), 2 * QuadA(s, ray))

Root1(s, ray) ==
    Div(-QuadB(s, ray) + Sqrt(Discriminant(s, ray)), 2 * QuadA(s, ray))

\* A variant that forgets the far root.
SphereIntersectNearOnly(s, ray, tRef, tMin, tMax) ==
    LET oc == Vec3Sub(ray.origin, s.center)
        a == Dot(ray.direction, ray.direction)
        b == 2 * Dot(oc, ray.direction)
        c == Dot(oc, oc) - Mul(s.radius, s.radius)
        discriminant == Mul(b, b) - 4 * Mul(a, c)
        t0 == Div(-b - Sqrt(discriminant), 2 * a)
    IN  IF discriminant < 0 THEN [ret |-> FALSE, t |-> tRef]
        ELSE IF a = 0 THEN [ret |-> FALSE, t |-> tRef]
        ELSE IF t0 >= tMin /\ t0 <= tMax THEN [ret |-> TRUE, t |-> t0]
        ELSE [ret |-> FALSE, t |-> tRef]

\* Sphere::intersect(ray, t, tMin, tMax): the return value and the value of
\* the reference t afterwards (tRef is its value before the call).
SphereIntersect(s, ray, tRef, tMin, tMax) ==
    LET oc == Vec3Sub(ray.origin, s.center)
        a == Dot(ray.direction, ray.direction)
        b == 2 * Dot(oc, ray.direction)
        c == Dot(oc, oc) - Mul(s.radius, s.radius)
        discriminant == Mul(b, b) - 4 * Mul(a, c)
        sqrtd == Sqrt(discriminant)
        t0 == Div(-b - sqrtd, 2 * a)
        t1 == Div(-b + sqrtd, 2 * a)
    IN  IF discriminant < 0 THEN [ret |-> FALSE, t |-> tRef]
        ELSE IF a = 0 THEN [ret |-> FALSE, t |-> tRef]  \* t0 and t1 are NaN
        ELSE IF t0 >= tMin /\ t0 <= tMax THEN [ret |-> TRUE, t |-> t0]
        ELSE IF t1 >= tMin /\ t1 <= tMax THEN [ret |-> TRUE, t |-> t1]
        ELSE [ret |-> FALSE, t |-> tRef]

GetNormal(s, point) == Normalize(Vec3Sub(point, s.center))

----------------------------------------------------------------------------
(* Light *)

Light(position, color, intensity) ==
    [position |-> position, color |-> color, intensity |-> intensity]

----------------------------------------------------------------------------
(* Scene *)

\* The loop of Scene::intersect from index i on; tLocal is the local `t`.
RECURSIVE SceneLoop(_, _, _, _, _, _, _)
SceneLoop(sph, ray, tMin, i, tLocal, tClosest, sphereIndex) ==
    IF i >= Len(sph)
    THEN [ret |-> sphereIndex # -1, t |-> tClosest, idx |-> sphereIndex]
    ELSE LET r == SphereIntersect(sph[i + 1], ray, tLocal, tMin, tClosest)
         IN  IF r.ret
             THEN SceneLoop(sph, ray, tMin, i + 1, r.t, r.t, i)
             ELSE SceneLoop(sph, ray, tMin, i + 1, r.t, tClosest, sphereIndex)

\* A variant that tests every sphere against +infinity.
SceneIntersectUnbounded(sph, ray, tRef, idxRef, tMin) ==
    LET hits == { i \in 1 .. Len(sph) :
                    SphereIntersect(sph[i], ray, 0, tMin, Inf).ret }
        last == CHOOSE i \in hits : \A j \in hits : j <= i
    IN  IF hits = {} THEN [ret |-> FALSE, t |-> Inf, idx |-> -1]
        ELSE [ret |-> TRUE, idx |-> last - 1,
              t |-> SphereIntersect(sph[last], ray, 0, tMin, Inf).t]

\* A variant that does not reset its outputs.
SceneIntersectNoReset(sph, ray, tRef, idxRef, tMin) ==
    SceneLoop(sph, ray, tMin, 0, 0, tRef, idxRef)

\* A variant that replaces the closest sphere only by a strictly closer one.
RECURSIVE SceneLoopStrict(_, _, _, _, _, _)
SceneLoopStrict(sph, ray, tMin, i, tClosest, sphereIndex) ==
    IF i >= Len(sph)
    THEN [ret |-> sphereIndex # -1, t |-> tClosest, idx |-> sphereIndex]
    ELSE LET r == SphereIntersect(sph[i + 1], ray, 0, tMin, tClosest)
         IN  IF r.ret /\ r.t < tClosest
             THEN SceneLoopStrict(sph, ray, tMin, i + 1, r.t, i)
             ELSE SceneLoopStrict(sph, ray, tMin, i + 1, tClosest, sphereIndex)

SceneIntersectStrict(sph, ray, tRef, idxRef, tMin) ==
    SceneLoopStrict(sph, ray, tMin, 0, Inf, -1)

\* Scene::intersect(ray, tClosest, sphereIndex, tMin): tRef and idxRef are
\* the values of the two references before the call.
SceneIntersect(sph, ray, tRef, idxRef, tMin) ==
    SceneLoop(sph, ray, tMin, 0, 0, Inf, -1)

\* A variant that counts an occluder at exactly the light's distance.
IsInShadowInclusive(sph, point, lightPos) ==
    LET toLight == Vec3Sub(lightPos, point)
        r == SceneIntersect(sph, Ray(point, toLight), 0, 0, Epsilon)
    IN  IF r.ret THEN r.t <= Length(toLight) ELSE FALSE

IsInShadow(sph, point, lightPos) ==
    LET toLight == Vec3Sub(lightPos, point)
        distToLight == Length(toLight)
        shadowRay == Ray(point, toLight)
        r == SceneIntersect(sph, shadowRay, 0, 0, Epsilon)
    IN  IF r.ret THEN r.t < distToLight ELSE FALSE

----------------------------------------------------------------------------
(* Camera *)

\* u and v are doubles (the loop's int x and y converted), width and height ints.
GetRay(cam, u, v, width, height) ==
    LET forward == Normalize(Vec3Sub(cam.lookAt, cam.position))
        right == Normalize(Cross(forward, cam.up))
        upVec == Cross(right, forward)
        aspectRatio == Div(width * Scale, height * Scale)
        scale == Tan(cam.fov \div 2)
        x == Mul(Mul(Div(2 * u, width * Scale) - Scale, aspectRatio), scale)
        y == Mul(Scale - Div(2 * v, height * Scale), scale)
        direction == Normalize(Vec3Add(forward,
                         Vec3Add(Vec3Scale(right, x), Vec3Scale(upVec, y))))
    IN  Ray(cam.position, direction)

----------------------------------------------------------------------------
(* Image *)

InImage(x, y) == x >= 0 /\ x < Width /\ y >= 0 /\ y < Height

SetPixel(pixels, x, y, color) ==
    IF InImage(x, y) THEN [pixels EXCEPT ![y * Width + x] = color] ELSE pixels

----------------------------------------------------------------------------
(* Renderer: the color each pass hands to setPixel for a camera ray and the *)
(* result hit = [ret, t, idx] of Scene::intersect on that ray               *)

Background == Vec3(500, 700, 1000)

DistanceColor(sph, lts, amb, ray, hit) ==
    IF hit.ret
    THEN LET normalizedDist == Scale - Min(Scale, Div(hit.t, 20 * Scale))
         IN  Vec3(normalizedDist, normalizedDist, normalizedDist)
    ELSE Background

MaterialsColor(sph, lts, amb, ray, hit) ==
    IF hit.ret THEN sph[hit.idx + 1].material.color ELSE Background

\* A variant without the max(0, .) on the cosine.
RECURSIVE DiffuseLoopSigned(_, _, _, _, _, _)
DiffuseLoopSigned(lts, i, finalColor, hitPoint, normal, materialColor) ==
    IF i > Len(lts) THEN finalColor
    ELSE LET light == lts[i]
             toLight == Normalize(Vec3Sub(light.position, hitPoint))
             diffuse == Dot(normal, toLight)
         IN  DiffuseLoopSigned(lts, i + 1,
                 Vec3Add(finalColor,
                         Vec3Scale(Vec3Mul(materialColor, light.color),
                                   Mul(diffuse, light.intensity))),
                 hitPoint, normal, materialColor)

\* The loop over scene.lights of renderDiffuse, from light i on.
RECURSIVE DiffuseLoop(_, _, _, _, _, _)
DiffuseLoop(lts, i, finalColor, hitPoint, normal, materialColor) ==
    IF i > Len(lts) THEN finalColor
    ELSE LET light == lts[i]
             toLight == Normalize(Vec3Sub(light.position, hitPoint))
             diffuse == Max(0, Dot(normal, toLight))
         IN  DiffuseLoop(lts, i + 1,
                 Vec3Add(finalColor,
                         Vec3Scale(Vec3Mul(materialColor, light.color),
                                   Mul(diffuse, light.intensity))),
                 hitPoint, normal, materialColor)

\* A variant whose background is lit by the ambient term.
DiffuseColorLitBackground(sph, lts, amb, ray, hit) ==
    IF hit.ret
    THEN LET hitPoint == At(ray, hit.t)
             normal == GetNormal(sph[hit.idx + 1], hitPoint)
             materialColor == sph[hit.idx + 1].material.color
         IN  DiffuseLoop(lts, 1, Vec3Mul(amb, materialColor),
                         hitPoint, normal, materialColor)
    ELSE Vec3Add(Vec3Mul(amb, Background), Background)

DiffuseColor(sph, lts, amb, ray, hit) ==
    IF hit.ret
    THEN LET hitPoint == At(ray, hit.t)
             normal == GetNormal(sph[hit.idx + 1], hitPoint)
             materialColor == sph[hit.idx + 1].material.color
         IN  DiffuseLoop(lts, 1, Vec3Mul(amb, materialColor),
                         hitPoint, normal, materialColor)
    ELSE Background

\* The loop over scene.lights of renderWithShadows, from light i on.
RECURSIVE ShadowsLoop(_, _, _, _, _, _, _)
ShadowsLoop(sph, lts, i, finalColor, hitPoint, normal, materialColor) ==
    IF i > Len(lts) THEN finalColor
    ELSE LET light == lts[i]
         IN  IF ~IsInShadow(sph, hitPoint, light.position)
             THEN LET toLight == Normalize(Vec3Sub(light.position, hitPoint))
                      diffuse == Max(0, Dot(normal, toLight))
                  IN  ShadowsLoop(sph, lts, i + 1,
                          Vec3Add(finalColor,
                                  Vec3Scale(Vec3Mul(materialColor, light.color),
                                            Mul(diffuse, light.intensity))),
                          hitPoint, normal, materialColor)
             ELSE ShadowsLoop(sph, lts, i + 1, finalColor,
                              hitPoint, normal, materialColor)

\* A variant that leaves out the shadow test.
ShadowsColorUngated(sph, lts, amb, ray, hit) ==
    IF hit.ret
    THEN LET hitPoint == At(ray, hit.t)
             normal == GetNormal(sph[hit.idx + 1], hitPoint)
             materialColor == sph[hit.idx + 1].material.color
         IN  DiffuseLoop(lts, 1, Vec3Mul(amb, materialColor),
                         hitPoint, normal, materialColor)
    ELSE Background

ShadowsColor(sph, lts, amb, ray, hit) ==
    IF hit.ret
    THEN LET hitPoint == At(ray, hit.t)
             normal == GetNormal(sph[hit.idx + 1], hitPoint)
             materialColor == sph[hit.idx + 1].material.color
         IN  ShadowsLoop(sph, lts, 1, Vec3Mul(amb, materialColor),
                         hitPoint, normal, materialColor)
    ELSE Background

Modes == {"distance", "materials", "diffuse", "shadows"}

----------------------------------------------------------------------------
(* The inputs the model draws from *)

Red == Vec3(1000, 300, 300)
Green == Vec3(300, 1000, 300)

\* The red sphere of main at twice its radius (so that the few rays of a
\* small image meet it), and a sphere that overlaps it and stands between it
\* and the first light.
SphereChoices ==
    { Sphere(Vec3(0, 0, 0), 2000, Red),
      Sphere(Vec3(2000, 2000, 2000), 2000, Green) }

LightChoices ==
    { Light(Vec3(5000, 5000, 5000), Vec3(1000, 1000, 1000), 800),
      Light(Vec3(-6000, 0, 0), Vec3(1000, 900, 800), 400) }

Cameras ==
    { [position |-> Vec3(0, 0, 5000), lookAt |-> Vec3(0, 0, 0),
       up |-> Vec3(0, 1000, 0), fov |-> 60] }

\* Points in front of, inside, beside and behind the spheres; directions
\* along an axis, through both centers, in the plane midway between the
\* centers, and the zero vector.
Origins ==
    { Vec3(0, 0, 5000), Vec3(0, 0, 0), Vec3(5000, -3000, 1000),
      Vec3(-3000, -3000, -3000) }

Directions ==
    { Vec3(0, 0, -1000), Vec3(2000, 2000, 2000), Vec3(-1000, 1000, 0),
      Vec3(0, 0, 0) }

Rays == { Ray(o, d) : o \in Origins, d \in Directions }

TMins == { 0, Epsilon, 3500 }

TMaxs == { Inf, 3000, 5000 }

LightPositions == { Vec3(0, 0, 2000), Vec3(0, 0, -6000), Vec3(0, 0, 1999) }

\* What a local `double t; int sphereIdx;` may hold before it is assigned.
Uninitialized == { <<0, 0>>, <<1500, 1>> }

NoCall ==
    [op |-> "none", index |-> 0, ray |-> Ray(Vec3(0, 0, 0), Vec3(0, 0, 0)),
     tMin |-> 0, tMax |-> 0, point |-> Vec3(0, 0, 0),
     lightPos |-> Vec3(0, 0, 0), tBefore |-> 0, idxBefore |-> 0,
     ret |-> FALSE]

Pixels == 0 .. (Width * Height - 1)

----------------------------------------------------------------------------
(* main: construction *)

Init ==
    /\ spheres = <<>>
    /\ lights = <<>>
    /\ ambientLight = Vec3(100, 100, 100)
    /\ camera \in Cameras
    /\ img = [p \in Pixels |-> Vec3(0, 0, 0)]
    /\ pc = "setup"
    /\ mode = "none"
    /\ px = 0
    /\ py = 0
    /\ writes = [p \in Pixels |-> 0]
    /\ outside = 0
    /\ call = NoCall
    /\ \E u \in Uninitialized : t = u[1] /\ sphereIdx = u[2]

AddSphere ==
    /\ pc = "setup"
    /\ call.op = "none"
    /\ Len(spheres) < MaxSpheres
    /\ \E s \in SphereChoices : spheres' = Append(spheres, s)
    /\ UNCHANGED <<lights, ambientLight, camera, img, pc, mode, px, py,
                   writes, outside, call, t, sphereIdx>>

AddLight ==
    /\ pc = "setup"
    /\ Len(lights) < MaxLights
    /\ \E l \in LightChoices : lights' = Append(lights, l)
    /\ UNCHANGED <<spheres, ambientLight, camera, img, pc, mode, px, py,
                   writes, outside, call, t, sphereIdx>>

----------------------------------------------------------------------------
(* main: the render passes *)

\* A call Renderer::render...(img, camera, scene) begins: y = 0, x = 0.
BeginRender ==
    /\ pc \in {"setup", "idle"}
    /\ call.op = "none"
    /\ \E m \in Modes : mode' = m
    /\ pc' = "render"
    /\ px' = 0
    /\ py' = 0
    /\ writes' = [p \in Pixels |-> 0]
    /\ outside' = 0
    /\ UNCHANGED <<spheres, lights, ambientLight, camera, img, call, t,
                   sphereIdx>>

\* A variant whose inner loop stops one column early.
PixelStepShortRow(color, hit) ==
    /\ img' = SetPixel(img, px, py, color)
    /\ writes' = IF InImage(px, py)
                 THEN [writes EXCEPT ![py * Width + px] = @ + 1] ELSE writes
    /\ outside' = IF InImage(px, py) THEN outside ELSE outside + 1
    /\ t' = hit.t
    /\ sphereIdx' = hit.idx
    /\ px' = IF px + 1 < Width - 1 THEN px + 1 ELSE 0
    /\ py' = IF px + 1 < Width - 1 THEN py ELSE py + 1
    /\ pc' = IF px + 1 < Width - 1 \/ py + 1 < Height THEN "render" ELSE "idle"
    /\ UNCHANGED <<spheres, lights, ambientLight, camera, mode, call>>

\* A variant that accumulates the color into the Scene's ambient term.
PixelStepTouchesScene(color, hit) ==
    /\ img' = SetPixel(img, px, py, color)
    /\ writes' = IF InImage(px, py)
                 THEN [writes EXCEPT ![py * Width + px] = @ + 1] ELSE writes
    /\ outside' = IF InImage(px, py) THEN outside ELSE outside + 1
    /\ t' = hit.t
    /\ sphereIdx' = hit.idx
    /\ px' = IF px + 1 < Width THEN px + 1 ELSE 0
    /\ py' = IF px + 1 < Width THEN py ELSE py + 1
    /\ pc' = IF px + 1 < Width \/ py + 1 < Height THEN "render" ELSE "idle"
    /\ ambientLight' = IF hit.ret THEN color ELSE ambientLight
    /\ UNCHANGED <<spheres, lights, camera, mode, call>>

\* One iteration of the pixel loop with its setPixel(x, y, color), then the
\* ++x, and at the end of a row the ++y; the pass returns after the last row.
PixelStep(color, hit) ==
    /\ img' = SetPixel(img, px, py, color)
    /\ writes' = IF InImage(px, py)
                 THEN [writes EXCEPT ![py * Width + px] = @ + 1] ELSE writes
    /\ outside' = IF InImage(px, py) THEN outside ELSE outside + 1
    /\ t' = hit.t
    /\ sphereIdx' = hit.idx
    /\ px' = IF px + 1 < Width THEN px + 1 ELSE 0
    /\ py' = IF px + 1 < Width THEN py ELSE py + 1
    /\ pc' = IF px + 1 < Width \/ py + 1 < Height THEN "render" ELSE "idle"
    /\ UNCHANGED <<spheres, lights, ambientLight, camera, mode, call>>

CameraRay == GetRay(camera, px * Scale, py * Scale, Width, Height)

RenderDistanceStep ==
    /\ pc = "render"
    /\ mode = "distance"
    /\ LET ray == CameraRay
           hit == SceneIntersect(spheres, ray, t, sphereIdx, Epsilon)
           color == DistanceColor(spheres, lights, ambientLight, ray, hit)
       IN  PixelStep(color, hit)

RenderMaterialsStep ==
    /\ pc = "render"
    /\ mode = "materials"
    /\ LET ray == CameraRay
           hit == SceneIntersect(spheres, ray, t, sphereIdx, Epsilon)
           color == MaterialsColor(spheres, lights, ambientLight, ray, hit)
       IN  PixelStep(color, hit)

RenderDiffuseStep ==
    /\ pc = "render"
    /\ mode = "diffuse"
    /\ LET ray == CameraRay
           hit == SceneIntersect(spheres, ray, t, sphereIdx, Epsilon)
           color == DiffuseColor(spheres, lights, ambientLight, ray, hit)
       IN  PixelStep(color, hit)

RenderWithShadowsStep ==
    /\ pc = "render"
    /\ mode = "shadows"
    /\ LET ray == CameraRay
           hit == SceneIntersect(spheres, ray, t, sphereIdx, Epsilon)
           color == ShadowsColor(spheres, lights, ambientLight, ray, hit)
       IN  PixelStep(color, hit)

Next ==
    \/ AddSphere
    \/ AddLight
    \/ BeginRender
    \/ RenderDistanceStep
    \/ RenderMaterialsStep
    \/ RenderDiffuseStep
    \/ RenderWithShadowsStep

Spec == Init /\ [][Next]_vars

----------------------------------------------------------------------------
(* Direct calls of the intersection queries *)

CallSphereIntersect ==
    /\ call.op = "none"
    /\ \E i \in 1 .. Len(spheres), ray \in Rays, tMin \in TMins, tMax \in TMaxs :
          LET r == SphereIntersect(spheres[i], ray, t, tMin, tMax)
          IN  /\ call' = [NoCall EXCEPT !.op = "Sphere.intersect", !.index = i,
                                        !.ray = ray, !.tMin = tMin,
                                        !.tMax = tMax, !.tBefore = t,
                                        !.ret = r.ret]
              /\ t' = r.t
    /\ UNCHANGED <<spheres, lights, ambientLight, camera, img, pc, mode, px,
                   py, writes, outside, sphereIdx>>

CallSceneIntersect ==
    /\ call.op = "none"
    /\ \E ray \in Rays, tMin \in TMins :
          LET r == SceneIntersect(spheres, ray, t, sphereIdx, tMin)
          IN  /\ call' = [NoCall EXCEPT !.op = "Scene.intersect", !.ray = ray,
                                        !.tMin = tMin, !.tBefore = t,
                                        !.idxBefore = sphereIdx,
                                        !.ret = r.ret]
              /\ t' = r.t
              /\ sphereIdx' = r.idx
    /\ UNCHANGED <<spheres, lights, ambientLight, camera, img, pc, mode, px,
                   py, writes, outside>>

CallIsInShadow ==
    /\ call.op = "none"
    /\ \E point \in Origins, lightPos \in LightPositions \cup Origins :
          call' = [NoCall EXCEPT !.op = "Scene.isInShadow", !.point = point,
                                 !.lightPos = lightPos,
                                 !.ret = IsInShadow(spheres, point, lightPos)]
    /\ UNCHANGED <<spheres, lights, ambientLight, camera, img, pc, mode, px,
                   py, writes, outside, t, sphereIdx>>

\* The caller returns: its locals go out of scope, and the next caller's are
\* again whatever the stack holds.
Return ==
    /\ call.op # "none"
    /\ call' = NoCall
    /\ \E u \in Uninitialized : t' = u[1] /\ sphereIdx' = u[2]
    /\ UNCHANGED <<spheres, lights, ambientLight, camera, img, pc, mode, px,
                   py, writes, outside>>

NextQuery ==
    \/ AddSphere
    \/ Return
    \/ CallSphereIntersect
    \/ CallSceneIntersect
    \/ CallIsInShadow

SpecQuery == Init /\ [][NextQuery]_vars

----------------------------------------------------------------------------
(* Properties of the intersection queries, checked under SpecQuery *)

\* What Sphere::intersect returns for sphere i alone with tMax = +infinity.
Alone(i) == SphereIntersect(spheres[i], call.ray, 0, call.tMin, Inf)

SceneCalled == call.op = "Scene.intersect"

\* C1: when one sphere's valid distance (tested alone, tMax = +infinity) is
\* strictly smaller than that of every other sphere of the Scene,
\* Scene::intersect returns true with that distance and that sphere's index,
\* wherever the sphere stands in the list.
C1_ClosestHit ==
    SceneCalled =>
        \A i \in 1 .. Len(spheres) :
            ( /\ Alone(i).ret
              /\ \A j \in (1 .. Len(spheres)) \ {i} :
                    ~Alone(j).ret \/ Alone(j).t > Alone(i).t )
            => (call.ret /\ t = Alone(i).t /\ sphereIdx = i - 1)

\* C1 witness: two spheres are both met by the ray, and the one added first
\* is strictly the closer: the second was pruned by the running distance.
C1_Witness ==
    /\ SceneCalled
    /\ Len(spheres) = 2
    /\ Alone(1).ret
    /\ Alone(2).ret
    /\ Alone(1).t < Alone(2).t
    /\ sphereIdx = 0

\* The spheres whose valid distance equals the returned one.
Tied == { i \in 1 .. Len(spheres) : Alone(i).ret /\ Alone(i).t = t }

\* C2 as stated: among spheres at the same minimal distance the one added
\* first is returned.
C2_FirstAddedWins ==
    (SceneCalled /\ call.ret) => \A i \in Tied : sphereIdx <= i - 1

\* C2 as amended: among spheres at the same minimal distance the one added
\* last is returned (the bound tMax = tClosest is inclusive).
C2_LastAddedWins ==
    (SceneCalled /\ call.ret) =>
        /\ sphereIdx + 1 \in Tied
        /\ \A i \in Tied : sphereIdx >= i - 1

\* C2 witness: two different spheres at the same distance.
C2_Witness ==
    /\ SceneCalled
    /\ call.ret
    /\ Len(spheres) = 2
    /\ spheres[1] # spheres[2]
    /\ Tied = {1, 2}
    /\ sphereIdx = 1

ShadowRay == Ray(call.point, Vec3Sub(call.lightPos, call.point))

ShadowHit == SceneIntersect(spheres, ShadowRay, 0, 0, Epsilon)

LightDistance == Length(Vec3Sub(call.lightPos, call.point))

\* C3: isInShadow(point, lightPos) is true exactly when the closest
\* intersection of the ray from point toward lightPos (tMin = 0.001) exists
\* and is strictly closer than the light.
C3_ShadowIffStrictlyCloser ==
    call.op = "Scene.isInShadow" =>
        (call.ret <=> (ShadowHit.ret /\ ShadowHit.t < LightDistance))

\* C3 witness: the occluder's surface is exactly at the light's distance.
C3_Witness ==
    /\ call.op = "Scene.isInShadow"
    /\ ShadowHit.ret
    /\ ShadowHit.t = LightDistance
    /\ ~call.ret

CalledSphere == spheres[call.index]

InRange(d) == d >= call.tMin /\ d <= call.tMax

\* C7: Sphere::intersect misses on a negative discriminant; otherwise it
\* returns the near root t0 if it is in [tMin, tMax], else the far root t1 if
\* that is in [tMin, tMax], else it misses.
C7_RootSelection ==
    (call.op = "Sphere.intersect" /\ call.tMin <= call.tMax) =>
        IF Discriminant(CalledSphere, call.ray) < 0 THEN ~call.ret
        ELSE IF IsNaN(CalledSphere, call.ray) THEN ~call.ret
        ELSE LET t0 == Root0(CalledSphere, call.ray)
                 t1 == Root1(CalledSphere, call.ray)
             IN  /\ t0 <= t1
                 /\ call.ret => InRange(t)
                 /\ InRange(t0) => (call.ret /\ t = t0)
                 /\ (~InRange(t0) /\ InRange(t1)) => (call.ret /\ t = t1)
                 /\ (~InRange(t0) /\ ~InRange(t1)) => ~call.ret

\* C7 witness: the ray starts inside the sphere, the far root is returned.
C7_Witness ==
    /\ call.op = "Sphere.intersect"
    /\ Discriminant(CalledSphere, call.ray) >= 0
    /\ ~IsNaN(CalledSphere, call.ray)
    /\ Root0(CalledSphere, call.ray) < call.tMin
    /\ InRange(Root1(CalledSphere, call.ray))
    /\ call.ret
    /\ t = Root1(CalledSphere, call.ray)

\* C10: after Scene::intersect the outputs are coupled to the return value:
\* true iff 0 <= sphereIndex < number of spheres, and then tClosest is finite
\* and at least tMin; false iff sphereIndex = -1, and then tClosest is
\* +infinity, whatever the references held before the call.
C10_OutputsCoupled ==
    SceneCalled =>
        /\ call.ret <=> (0 <= sphereIdx /\ sphereIdx < Len(spheres))
        /\ call.ret => (t < Inf /\ t >= call.tMin)
        /\ ~call.ret <=> sphereIdx = -1
        /\ ~call.ret => t = Inf

\* C10 witness: the references held an index and a distance before a call
\* that misses every sphere of a Scene that has spheres.
C10_Witness ==
    /\ SceneCalled
    /\ spheres # <<>>
    /\ call.idxBefore = 1
    /\ call.tBefore = 1500
    /\ ~call.ret
    /\ sphereIdx = -1
    /\ t = Inf

----------------------------------------------------------------------------
(* Properties of the render passes, checked under Spec and FairSpec *)

RayAt(c) == GetRay(camera, c[1] * Scale, c[2] * Scale, Width, Height)

HitAt(c) == SceneIntersect(spheres, RayAt(c), 0, 0, Epsilon)

\* The surface a camera ray with the result hit meets: the point, the sphere's
\* material color, the normal and ambient * materialColor.
Surface(ray, hit) ==
    LET sphere == spheres[hit.idx + 1]
        point == At(ray, hit.t)
    IN  [point |-> point,
         color |-> sphere.material.color,
         normal |-> GetNormal(sphere, point),
         ambient |-> Vec3Mul(ambientLight, sphere.material.color)]

Coordinates == { <<x, y>> : x \in 0 .. Width - 1, y \in 0 .. Height - 1 }

PixelAt(c) == img[c[2] * Width + c[1]]

\* The pixel the last iteration of the running (or just finished) pass has
\* stored: the one before (px, py) in row-major order.
Written ==
    { c \in Coordinates : /\ mode # "none"
                          /\ writes[c[2] * Width + c[1]] > 0
                          /\ c[2] * Width + c[1] + 1 = py * Width + px }

\* The color a whole pass in mode m gives pixel c.
PassColor(m, c) ==
    LET ray == RayAt(c)
        hit == SceneIntersect(spheres, ray, 0, 0, Epsilon)
    IN  CASE m = "distance" -> DistanceColor(spheres, lights, ambientLight, ray, hit)
          [] m = "materials" -> MaterialsColor(spheres, lights, ambientLight, ray, hit)
          [] m = "diffuse" -> DiffuseColor(spheres, lights, ambientLight, ray, hit)
          [] m = "shadows" -> ShadowsColor(spheres, lights, ambientLight, ray, hit)

\* During a pass exactly the pixels before (px, py) in row-major order have
\* been stored, once each; after it every pixel has been, once; no setPixel
\* was out of range.
WritesOnce ==
    /\ outside = 0
    /\ pc = "render" =>
          \A p \in Pixels : writes[p] = IF p < py * Width + px THEN 1 ELSE 0
    /\ (pc = "idle" /\ mode # "none") => \A p \in Pixels : writes[p] = 1

\* The iterations a running pass still has to take.
Remaining == Width * Height - (py * Width + px)

\* C4: each render pass terminates (every iteration leaves one iteration
\* less, and the pass returns from the last), and during one invocation
\* stores every pixel of the image exactly once and none outside it.
C4_EveryPixelOnce ==
    [][ /\ WritesOnce
        /\ WritesOnce'
        /\ pc = "render" =>
              \/ pc' = "render" /\ Remaining' = Remaining - 1 /\ Remaining' > 0
              \/ pc' = "idle" /\ Remaining = 1 ]_vars

\* C4 witness: a materials pass over a Scene that some camera ray meets has
\* returned, every pixel stored once.
C4_Witness ==
    /\ pc = "idle"
    /\ mode = "materials"
    /\ spheres # <<>>
    /\ \A p \in Pixels : writes[p] = 1
    /\ \E c \in Coordinates : HitAt(c).ret

\* C5: in every mode a pixel whose camera ray meets no sphere is given the
\* background color (0.5, 0.7, 1.0), whatever the lights.
C5_MissIsBackground ==
    \A c \in Written : ~HitAt(c).ret => PixelAt(c) = Background

\* C5 witness: a lit Scene with spheres, a shadow-mode pixel whose ray
\* misses them all.
C5_Witness ==
    /\ mode = "shadows"
    /\ spheres # <<>>
    /\ lights # <<>>
    /\ \E c \in Written : ~HitAt(c).ret
    /\ \E c \in Coordinates : HitAt(c).ret

\* C6: a render pass changes neither the Scene nor the Camera, and the image
\* a pass leaves is the one its mode gives for that Scene and Camera,
\* whichever passes ran before.
C6_SceneAndCameraReadOnly ==
    [][ /\ (pc = "render" \/ pc' = "render") =>
              UNCHANGED <<spheres, lights, ambientLight, camera>>
        /\ (pc = "render" /\ pc' = "idle") =>
              \A c \in Coordinates : img'[c[2] * Width + c[1]] = PassColor(mode, c) ]_vars

\* C6 witness: a second pass is running over the image of a first one.
C6_Witness ==
    /\ pc = "render"
    /\ spheres # <<>>
    /\ lights # <<>>
    /\ \E c \in Coordinates :
          writes[c[2] * Width + c[1]] = 0 /\ PixelAt(c) # Vec3(0, 0, 0)

\* The lights that isInShadow reports as visible from a point.
Unshadowed(point) ==
    SelectSeq(lights, LAMBDA l : ~IsInShadow(spheres, point, l.position))

\* C8: the shadow-mode color of a hit pixel is ambient * materialColor plus
\* the diffuse-mode contributions of exactly the lights not in shadow at the
\* hit point: the diffuse-mode color when none is in shadow, ambient *
\* materialColor when all are.
C8_ShadowsIsGatedDiffuse ==
    mode = "shadows" =>
        \A c \in Written :
            LET ray == RayAt(c)
                hit == SceneIntersect(spheres, ray, 0, 0, Epsilon)
                s == Surface(ray, hit)
                visible == Unshadowed(s.point)
            IN  hit.ret =>
                /\ PixelAt(c) = DiffuseLoop(visible, 1, s.ambient, s.point,
                                            s.normal, s.color)
                /\ visible = lights =>
                      PixelAt(c) = DiffuseColor(spheres, lights, ambientLight, ray, hit)
                /\ visible = <<>> => PixelAt(c) = s.ambient

\* C8 witness: of two lights one is in shadow at the hit point and the other
\* adds light, so the pixel is neither the diffuse color nor the ambient one.
C8_Witness ==
    /\ mode = "shadows"
    /\ Len(lights) = 2
    /\ \E c \in Written :
          LET ray == RayAt(c)
              hit == SceneIntersect(spheres, ray, 0, 0, Epsilon)
              s == Surface(ray, hit)
          IN  /\ hit.ret
              /\ Len(Unshadowed(s.point)) = 1
              /\ PixelAt(c) # DiffuseColor(spheres, lights, ambientLight, ray, hit)
              /\ PixelAt(c) # s.ambient

\* The lights whose direction from a point has a non-negative dot product
\* with the normal there.
Facing(point, normal) ==
    SelectSeq(lights, LAMBDA l :
        Dot(normal, Normalize(Vec3Sub(l.position, point))) >= 0)

\* C9: in diffuse and shadow mode a light behind the surface adds nothing (the
\* color is the one the facing lights alone give), and every channel of a hit
\* pixel is at least that of ambient * materialColor.
C9_NoNegativeLight ==
    mode \in {"diffuse", "shadows"} =>
        \A c \in Written :
            LET ray == RayAt(c)
                hit == SceneIntersect(spheres, ray, 0, 0, Epsilon)
                s == Surface(ray, hit)
                facing == Facing(s.point, s.normal)
            IN  hit.ret =>
                /\ \A k \in 1 .. 3 : PixelAt(c)[k] >= s.ambient[k]
                /\ mode = "diffuse" =>
                      PixelAt(c) = DiffuseLoop(facing, 1, s.ambient, s.point,
                                               s.normal, s.color)
                /\ mode = "shadows" =>
                      PixelAt(c) = ShadowsLoop(spheres, facing, 1, s.ambient,
                                               s.point, s.normal, s.color)

\* C9 witness: a diffuse-mode pixel lit by one light in front of the surface
\* and one behind it.
C9_Witness ==
    /\ mode = "diffuse"
    /\ Len(lights) = 2
    /\ \E c \in Written :
          LET ray == RayAt(c)
              hit == SceneIntersect(spheres, ray, 0, 0, Epsilon)
              s == Surface(ray, hit)
          IN  /\ hit.ret
              /\ Len(Facing(s.point, s.normal)) = 1
              /\ PixelAt(c) # s.ambient

====
